---------------------------- MODULE Spec2Model ----------------------------
(* A model of dsl::TokenStream (src/src/dsl.hpp): the scanner `tokenize`  *)
(* and the cursor API over the token sequence it builds.                  *)
(*                                                                        *)
(* Characters are one-character strings, a source text is a sequence of  *)
(* them, and a pointer into the source is a 0-based offset, so that the  *)
(* character `*cur` is string[cur + 1].  A StringRef is the pair of       *)
(* offsets (begin, end) of a Token.  The model is of the build with      *)
(* assertions compiled in (NDEBUG is defined nowhere in the source): a    *)
(* failed assert aborts the process; the operators named _NDEBUG are the  *)
(* functions as compiled with assertions out.  Source texts are ASCII; a  *)
(* byte above 0x7f would reach std::isspace as a negative char.           *)
EXTENDS Integers, Sequences, FiniteSets, TLC

VARIABLES
    string,      \* TokenStream::string, the owned copy of the input
    tokens,      \* TokenStream::tokens
    lines,       \* TokenStream::lines
    lines_scan,  \* TokenStream::lines_scan
    pos,         \* TokenStream::pos, the cursor
    cur,         \* tokenize: const char *cur   (offset into string)
    start,       \* tokenize: const char *start (offset into string)
    line,        \* tokenize: int line
    col,         \* tokenize: int col
    pc,          \* "tokenize" | "ready" | "returned" | "aborted", and
                 \* "list_loop" | "group_loop" inside a call taken by steps
    call,        \* the call of the cursor API that has just returned, or
                 \* the call in progress with the locals of its loop
    undo         \* the last next(), while the calls after it undo it

vars == <<string, tokens, lines, lines_scan, pos, cur, start, line, col,
          pc, call, undo>>

--------------------------------------------------------------------------
(* Bounds of the checked instances.                                       *)

\* longest source text of the cursor specification
MaxStreamLen == 5
\* longest source text over the whole scanner alphabet
MaxAnyLen == 3
\* longest source text over one of the focused scanner alphabets
MaxFocusLen == 5
MaxStepLen == 4

\* all sequences over S of length at most n
SeqsUpTo(S, n) == UNION {[1..k -> S] : k \in 0..n}

--------------------------------------------------------------------------
(* Character classification in the "C" locale.                            *)

Digits == {"0", "1", "2", "3", "4", "5", "6", "7", "8", "9"}

Letters ==
    {"a", "b", "c", "d", "e", "f", "g", "h", "i", "j", "k", "l", "m",
     "n", "o", "p", "q", "r", "s", "t", "u", "v", "w", "x", "y", "z",
     "A", "B", "C", "D", "E", "F", "G", "H", "I", "J", "K", "L", "M",
     "N", "O", "P", "Q", "R", "S", "T", "U", "V", "W", "X", "Y", "Z"}

\* std::isspace; the vertical tab has no TLA+ escape and is in no alphabet
isspace(c) == c \in {" ", "\t", "\n", "\f", "\r"}
isdigit(c) == c \in Digits
isalpha(c) == c \in Letters
isalnum(c) == c \in Letters \cup Digits

--------------------------------------------------------------------------
(* StringRef and Token.                                                   *)

\* StringRef::length
length(v) == v.end - v.begin

\* StringRef::str, the characters of the slice
str(s, v) == SubSeq(s, v.begin + 1, v.end)

\* StringRef::operator== without the comparison of the lengths
StringRefEq_prefix(s, v, t) ==
    \A i \in 1..Len(t) : v.begin + i <= Len(s) /\ s[v.begin + i] = t[i]

\* StringRef::operator==(const char *), t a sequence of characters
StringRefEq(s, v, t) ==
    /\ length(v) = Len(t)
    /\ \A i \in 1..Len(t) : s[v.begin + i] = t[i]

\* Token::Token
Token(t, b, e, l, c) == [type |-> t, begin |-> b, end |-> e, line |-> l, col |-> c]

--------------------------------------------------------------------------
(* tokenize.  A scanner state is the record of tokenize's locals and of   *)
(* the members it fills; each rule of the loop is an operator on it.      *)

ScanInit ==
    [cur |-> 0, start |-> 0, line |-> 0, col |-> 0,
     tokens |-> <<>>, lines |-> <<>>, lines_scan |-> <<>>]

\* the lambda add_token
add_token(sc, type, token_start, token_end) ==
    [sc EXCEPT !.tokens = Append(@, Token(type, token_start, token_end, sc.line, sc.col)),
               !.col = @ + (token_end - token_start)]

\* the rules with the identifier rule tried before the number rule, and
\* taking any alphanumeric first character
RuleAt_alnum_first(s, c) ==
    LET ch == s[c + 1]
        end == Len(s)
    IN  IF ch = "\n" THEN "newline"
        ELSE IF isspace(ch) THEN "space"
        ELSE IF ch = "/" /\ c + 1 < end /\ s[c + 2] = "/" THEN "comment"
        ELSE IF ch = "\"" \/ ch = "'" THEN "string"
        ELSE IF isalnum(ch) \/ ch = "_" THEN "literal"
        ELSE IF isdigit(ch) \/ (ch = "." /\ c + 1 < end /\ isdigit(s[c + 2])) THEN "number"
        ELSE "operator"

\* the rules without the number that starts on a `.`
RuleAt_digit_only(s, c) ==
    LET ch == s[c + 1]
        end == Len(s)
    IN  IF ch = "\n" THEN "newline"
        ELSE IF isspace(ch) THEN "space"
        ELSE IF ch = "/" /\ c + 1 < end /\ s[c + 2] = "/" THEN "comment"
        ELSE IF ch = "\"" \/ ch = "'" THEN "string"
        ELSE IF isdigit(ch) THEN "number"
        ELSE IF isalpha(ch) \/ ch = "_" THEN "literal"
        ELSE "operator"

\* the rule the loop takes at offset c
RuleAt(s, c) ==
    LET ch == s[c + 1]
        end == Len(s)
    IN  IF ch = "\n" THEN "newline"
        ELSE IF isspace(ch) THEN "space"
        ELSE IF ch = "/" /\ c + 1 < end /\ s[c + 2] = "/" THEN "comment"
        ELSE IF ch = "\"" \/ ch = "'" THEN "string"
        ELSE IF isdigit(ch) \/ (ch = "." /\ c + 1 < end /\ isdigit(s[c + 2])) THEN "number"
        ELSE IF isalpha(ch) \/ ch = "_" THEN "literal"
        ELSE "operator"

ScanNewline(s, sc) ==
    [sc EXCEPT !.lines = Append(@, SubSeq(s, sc.start + 1, sc.cur)),
               !.lines_scan = Append(@, sc.start),
               !.start = sc.cur + 1,
               !.line = @ + 1,
               !.col = 0,
               !.cur = @ + 1]

ScanSpace(s, sc) == [sc EXCEPT !.cur = @ + 1, !.col = @ + 1]

RECURSIVE CommentEnd(_, _)
CommentEnd(s, c) ==
    IF c < Len(s) /\ s[c + 1] # "\n" THEN CommentEnd(s, c + 1) ELSE c

ScanComment(s, sc) == [sc EXCEPT !.cur = CommentEnd(s, sc.cur)]

\* the string loop without the backslash escape
RECURSIVE StringBody_no_escape(_, _, _)
StringBody_no_escape(s, c, quote) ==
    IF c < Len(s) /\ s[c + 1] # quote
    THEN StringBody_no_escape(s, c + 1, quote)
    ELSE c

\* the string loop taking the character after a backslash unchecked
RECURSIVE StringBody_unchecked(_, _, _)
StringBody_unchecked(s, c, quote) ==
    IF c < Len(s) /\ s[c + 1] # quote
    THEN StringBody_unchecked(s, (IF s[c + 1] = "\\" THEN c + 1 ELSE c) + 1, quote)
    ELSE c

RECURSIVE StringBody(_, _, _)
StringBody(s, c, quote) ==
    IF c < Len(s) /\ s[c + 1] # quote
    THEN StringBody(s, (IF s[c + 1] = "\\" /\ c + 1 < Len(s) THEN c + 1 ELSE c) + 1, quote)
    ELSE c

ScanString(s, sc) ==
    LET quote == s[sc.cur + 1]
        body == StringBody(s, sc.cur + 1, quote)
        stop == IF body < Len(s) THEN body + 1 ELSE body
    IN  [add_token(sc, "STRING", sc.cur, stop) EXCEPT !.cur = stop]

RECURSIVE NumberEnd(_, _, _)
NumberEnd(s, c, has_dot) ==
    IF c < Len(s) /\ (isdigit(s[c + 1]) \/ (~has_dot /\ s[c + 1] = "."))
    THEN NumberEnd(s, c + 1, has_dot \/ s[c + 1] = ".")
    ELSE c

ScanNumber(s, sc) ==
    LET stop == NumberEnd(s, sc.cur, FALSE)
    IN  [add_token(sc, "NUMBER", sc.cur, stop) EXCEPT !.cur = stop]

RECURSIVE LiteralEnd(_, _)
LiteralEnd(s, c) ==
    IF c < Len(s) /\ (isalnum(s[c + 1]) \/ s[c + 1] = "_")
    THEN LiteralEnd(s, c + 1)
    ELSE c

ScanLiteral(s, sc) ==
    LET stop == LiteralEnd(s, sc.cur)
    IN  [add_token(sc, "LITERAL", sc.cur, stop) EXCEPT !.cur = stop]

\* the operator rule extending `&` and `|` only to `&&` and `||`
OperatorEnd_no_pipe_eq(s, c) ==
    LET op == s[c + 1]
        nxt == c + 1
    IN  IF /\ nxt < Len(s)
           /\ \/ (op \in {"=", "!", "<", ">", "+", "-"} /\ s[nxt + 1] = "=")
              \/ (op = "&" /\ s[nxt + 1] = "&")
              \/ (op = "|" /\ s[nxt + 1] = "|")
        THEN nxt + 1
        ELSE nxt

OperatorEnd(s, c) ==
    LET op == s[c + 1]
        nxt == c + 1
    IN  IF /\ nxt < Len(s)
           /\ op \in {"=", "!", "<", ">", "&", "|", "+", "-"}
           /\ \/ s[nxt + 1] = "="
              \/ (op = "&" /\ s[nxt + 1] = "&")
              \/ (op = "|" /\ s[nxt + 1] = "|")
        THEN nxt + 1
        ELSE nxt

ScanOperator(s, sc) ==
    LET stop == OperatorEnd(s, sc.cur)
    IN  [add_token(sc, "OPERATOR", sc.cur, stop) EXCEPT !.cur = stop]

\* one iteration of the loop `while (cur < end)`
ScanStep(s, sc) ==
    LET rule == RuleAt(s, sc.cur)
    IN  CASE rule = "newline"  -> ScanNewline(s, sc)
          [] rule = "space"    -> ScanSpace(s, sc)
          [] rule = "comment"  -> ScanComment(s, sc)
          [] rule = "string"   -> ScanString(s, sc)
          [] rule = "number"   -> ScanNumber(s, sc)
          [] rule = "literal"  -> ScanLiteral(s, sc)
          [] rule = "operator" -> ScanOperator(s, sc)

\* tokenize without the code after its loop
ScanFinish_forgotten(s, sc) == sc

\* the code after the loop: the last line, when it has no newline
ScanFinish(s, sc) ==
    IF sc.start < Len(s)
    THEN [sc EXCEPT !.lines = Append(@, SubSeq(s, sc.start + 1, Len(s))),
                    !.lines_scan = Append(@, sc.start)]
    ELSE sc

RECURSIVE ScanLoop(_, _)
ScanLoop(s, sc) == IF sc.cur < Len(s) THEN ScanLoop(s, ScanStep(s, sc)) ELSE sc

\* tokenize() as the constructor runs it, to completion
tokenize(s) == ScanFinish(s, ScanLoop(s, ScanInit))

--------------------------------------------------------------------------
(* The cursor API.  Each operation is an operator of the cursor p it is   *)
(* called at, and yields [ok, pos, ret]: whether it returned (FALSE: an   *)
(* assertion failed), the cursor it leaves, and what it returned (the     *)
(* message of the failed assertion when it did not return).               *)

size == Len(tokens)

Return(p, v) == [ok |-> TRUE, pos |-> p, ret |-> v]
Abort(p, msg) == [ok |-> FALSE, pos |-> p, ret |-> msg]

\* peek() written with next()'s `tokens[pos++]`
peek_advances(p) ==
    IF p < size
    THEN Return(p + 1, tokens[p + 1])
    ELSE Abort(p, "Attempted to peek past end of token stream")

\* Token peek() const
peek(p) ==
    IF p < size
    THEN Return(p, tokens[p + 1])
    ELSE Abort(p, "Attempted to peek past end of token stream")

\* Token next()
next(p) ==
    IF p < size
    THEN Return(p + 1, tokens[p + 1])
    ELSE Abort(p, "Attempted to read past end of token stream")

\* bool consume(const char *str)
consume(p, t) ==
    IF p < size /\ StringRefEq(string, tokens[p + 1], t)
    THEN Return(p + 1, TRUE)
    ELSE Return(p, FALSE)

\* the find_if of get_list_until: t.value == s for some s of end_tokens
IsEndToken(p, end_tokens) ==
    \E i \in 1..Len(end_tokens) : StringRefEq(string, tokens[p + 1], end_tokens[i])

\* the loop of get_list_until
RECURSIVE ListLoop(_, _, _, _)
ListLoop(p, end_tokens, cons, result) ==
    IF p < size
    THEN IF IsEndToken(p, end_tokens)
         THEN Return(IF cons THEN p + 1 ELSE p, result)
         ELSE ListLoop(next(p).pos, end_tokens, cons, Append(result, next(p).ret))
    ELSE Return(p, result)

\* get_list_until that never consumes the end token
get_list_until_keep_end(p, end_tokens, cons) == ListLoop(p, end_tokens, FALSE, <<>>)

\* std::vector<Token> get_list_until(end_tokens, bool consume = true)
get_list_until(p, end_tokens, cons) == ListLoop(p, end_tokens, cons, <<>>)

\* std::vector<Token> unwrap_parentheses()
unwrap_parentheses(p) ==
    LET open == consume(p, <<"(">>)
        result == get_list_until(open.pos, << <<")">> >>, TRUE)
        close == consume(result.pos, <<")">>)
    IN  IF ~open.ret
        THEN Abort(open.pos, "Expected '(' at the beginning of parentheses")
        ELSE IF ~close.ret
        THEN Abort(close.pos, "Expected ')' at the end of parentheses")
        ELSE Return(close.pos, result.ret)

\* current_group pushed onto groups, empty or not
Flush_always(groups, current_group) == Append(groups, current_group)

\* current_group pushed onto groups when it is not empty
Flush(groups, current_group) ==
    IF current_group # <<>> THEN Append(groups, current_group) ELSE groups

\* the loop of get_token_groups_in_between and the flush after it
RECURSIVE GroupLoop(_, _, _, _, _)
GroupLoop(p, end, separator, groups, current_group) ==
    IF p < size /\ ~consume(p, end).ret
    THEN IF consume(p, separator).ret
         THEN GroupLoop(consume(p, separator).pos, end, separator,
                        Flush(groups, current_group), <<>>)
         ELSE GroupLoop(next(p).pos, end, separator,
                        groups, Append(current_group, next(p).ret))
    ELSE Return(IF p < size THEN consume(p, end).pos ELSE p,
                Flush(groups, current_group))

\* get_token_groups_in_between(start, end, separator)
get_token_groups_in_between(p, start_text, end, separator) ==
    LET open == consume(p, start_text)
    IN  IF ~open.ret
        THEN Abort(open.pos, "Expected start token at the beginning")
        ELSE GroupLoop(open.pos, end, separator, <<>>, <<>>)

\* unwrap_parentheses() compiled with NDEBUG: assert(e) is ((void)0) and
\* e, the calls of consume in it, is never evaluated
unwrap_parentheses_NDEBUG(p) ==
    LET result == get_list_until(p, << <<")">> >>, TRUE)
    IN  Return(result.pos, result.ret)

\* get_token_groups_in_between() compiled with NDEBUG
get_token_groups_in_between_NDEBUG(p, start_text, end, separator) ==
    GroupLoop(p, end, separator, <<>>, <<>>)

\* bool has_more_tokens() const
has_more_tokens(p) == Return(p, p < size)

\* bool eof() const
eof(p) == Return(p, p >= size)

\* move_back() asserting pos >= 0, which a size_t always satisfies
move_back_off_by_one(p) ==
    IF p >= 0
    THEN Return(p - 1, <<>>)
    ELSE Abort(p, "Attempted to move back before the beginning of the token stream")

\* move_back() without its decrement
move_back_stays(p) ==
    IF p > 0
    THEN Return(p, <<>>)
    ELSE Abort(p, "Attempted to move back before the beginning of the token stream")

\* void move_back()
move_back(p) ==
    IF p > 0
    THEN Return(p - 1, <<>>)
    ELSE Abort(p, "Attempted to move back before the beginning of the token stream")

\* move_forward() without its bound check
move_forward_unchecked(p) == Return(p + 1, <<>>)

\* void move_forward()
move_forward(p) ==
    IF p < size
    THEN Return(p + 1, <<>>)
    ELSE Abort(p, "Attempted to move forward past the end of the token stream")

\* std::string get_line(int line_number) const
get_line(p, line_number) ==
    IF line_number >= 0 /\ line_number < Len(lines)
    THEN Return(p, lines[line_number + 1])
    ELSE Abort(p, "Invalid line number")

\* void print_error_at_current(const std::string &message) const; what it
\* returns is what it writes to std::cerr, line by line
print_error_at_current(p, message) ==
    IF p < size
    THEN LET token == tokens[p + 1]
             text == get_line(p, token.line)
         IN  IF ~text.ok
             THEN text
             ELSE Return(p, << <<"Error at line ", token.line + 1, ", col ", token.col,
                                 ": ", message>>,
                               text.ret,
                               [i \in 1..token.col |-> " "] \o <<"^">> >>)
    ELSE Return(p, << <<"Error at end of file: ", message>> >>)

--------------------------------------------------------------------------
(* The arguments the calls are made with.                                 *)

\* the texts consume is asked for
ConsumeTexts == {<<"(">>, <<",">>, <<"a">>, <<"a", "a">>}

\* the end_tokens lists of get_list_until
EndLists == {<< >>, << <<")">> >>, << <<",">>, <<")">> >>}

\* the (start, end, separator) of get_token_groups_in_between; the last
\* has its end equal to its separator
GroupTexts ==
    {<< <<"(">>, <<")">>, <<",">> >>,
     << <<"a">>, <<",">>, <<")">> >>,
     << <<"(">>, <<",">>, <<",">> >>}

PairwiseDistinct(g) == g[1] # g[2] /\ g[1] # g[3] /\ g[2] # g[3]

--------------------------------------------------------------------------
(* The state machine.                                                     *)

NoCall == [op |-> "none"]

ScanState ==
    [cur |-> cur, start |-> start, line |-> line, col |-> col,
     tokens |-> tokens, lines |-> lines, lines_scan |-> lines_scan]

SetScan(sc) ==
    /\ cur' = sc.cur
    /\ start' = sc.start
    /\ line' = sc.line
    /\ col' = sc.col
    /\ tokens' = sc.tokens
    /\ lines' = sc.lines
    /\ lines_scan' = sc.lines_scan

\* TokenStream(const std::string &input), at the entry of tokenize()
Construct(input) ==
    /\ string = input
    /\ pos = 0
    /\ cur = ScanInit.cur
    /\ start = ScanInit.start
    /\ line = ScanInit.line
    /\ col = ScanInit.col
    /\ tokens = ScanInit.tokens
    /\ lines = ScanInit.lines
    /\ lines_scan = ScanInit.lines_scan
    /\ pc = "tokenize"
    /\ call = NoCall
    /\ undo = NoCall

\* TokenStream(const std::string &input), constructed
Constructed(input) ==
    LET sc == tokenize(input)
    IN  /\ string = input
        /\ pos = 0
        /\ cur = sc.cur
        /\ start = sc.start
        /\ line = sc.line
        /\ col = sc.col
        /\ tokens = sc.tokens
        /\ lines = sc.lines
        /\ lines_scan = sc.lines_scan
        /\ pc = "ready"
        /\ call = NoCall
        /\ undo = NoCall

\* the steps of tokenize, one per rule of its loop
Tok(rule, sc) ==
    /\ pc = "tokenize"
    /\ cur < Len(string)
    /\ RuleAt(string, cur) = rule
    /\ SetScan(sc)
    /\ UNCHANGED <<string, pos, pc, call, undo>>

TokNewline == Tok("newline", ScanNewline(string, ScanState))
TokSpace == Tok("space", ScanSpace(string, ScanState))
TokComment == Tok("comment", ScanComment(string, ScanState))
TokString == Tok("string", ScanString(string, ScanState))
TokNumber == Tok("number", ScanNumber(string, ScanState))
TokLiteral == Tok("literal", ScanLiteral(string, ScanState))
TokOperator == Tok("operator", ScanOperator(string, ScanState))

TokFinish ==
    /\ pc = "tokenize"
    /\ cur >= Len(string)
    /\ SetScan(ScanFinish(string, ScanState))
    /\ pc' = "ready"
    /\ UNCHANGED <<string, pos, call, undo>>

\* a call of the cursor API with result r; a failed assertion aborts
Call(op, args, r, u) ==
    /\ pc = "ready"
    /\ pos' = r.pos
    /\ pc' = IF r.ok THEN "returned" ELSE "aborted"
    /\ call' = [op |-> op, args |-> args, pre |-> pos, ok |-> r.ok, ret |-> r.ret]
    /\ undo' = u
    /\ UNCHANGED <<string, tokens, lines, lines_scan, cur, start, line, col>>

\* undo after the call `op`: the next() being undone, when `op` is the
\* call that follows `after` in next(); move_back(); peek()
Undone(after, op) ==
    IF undo.op = "next" /\ undo.then = after
    THEN [undo EXCEPT !.then = op]
    ELSE NoCall

DoPeek == Call("peek", <<>>, peek(pos), Undone("move_back", "peek"))

DoNext ==
    Call("next", <<>>, next(pos),
         [op |-> "next", pre |-> pos, ok |-> next(pos).ok, ret |-> next(pos).ret,
          then |-> "next"])

DoConsume == \E t \in ConsumeTexts : Call("consume", <<t>>, consume(pos, t), NoCall)

DoGetListUntil ==
    \E e \in EndLists, c \in BOOLEAN :
        Call("get_list_until", <<e, c>>, get_list_until(pos, e, c), NoCall)

DoUnwrapParentheses ==
    Call("unwrap_parentheses", <<>>, unwrap_parentheses(pos), NoCall)

DoGetTokenGroupsInBetween ==
    \E g \in GroupTexts :
        Call("get_token_groups_in_between", g,
             get_token_groups_in_between(pos, g[1], g[2], g[3]), NoCall)

DoHasMoreTokens == Call("has_more_tokens", <<>>, has_more_tokens(pos), NoCall)

DoEof == Call("eof", <<>>, eof(pos), NoCall)

DoMoveBack == Call("move_back", <<>>, move_back(pos), Undone("next", "move_back"))

DoMoveForward == Call("move_forward", <<>>, move_forward(pos), NoCall)

DoGetLine ==
    \E n \in -1..Len(lines) : Call("get_line", <<n>>, get_line(pos, n), NoCall)

DoPrintErrorAtCurrent ==
    Call("print_error_at_current", <<"message">>,
         print_error_at_current(pos, "message"), NoCall)

\* the caller takes the result and goes on to its next call
Resume ==
    /\ pc = "returned"
    /\ pc' = "ready"
    /\ call' = NoCall
    /\ UNCHANGED <<string, tokens, lines, lines_scan, pos, cur, start, line, col, undo>>

--------------------------------------------------------------------------
(* The loops of get_list_until, unwrap_parentheses and                    *)
(* get_token_groups_in_between taken one iteration at a time; the locals  *)
(* of the call in progress are fields of `call`.                          *)

Returned(r) ==
    /\ pos' = r.pos
    /\ pc' = IF r.ok THEN "returned" ELSE "aborted"
    /\ call' = [op |-> call.op, args |-> call.args, pre |-> call.pre,
                ok |-> r.ok, ret |-> r.ret]

Frame == UNCHANGED <<string, tokens, lines, lines_scan, cur, start, line, col, undo>>

\* get_list_until called: `result` declared, the loop entered
EnterGetListUntil ==
    \E e \in EndLists, c \in BOOLEAN :
        /\ pc = "ready"
        /\ pc' = "list_loop"
        /\ call' = [op |-> "get_list_until", args |-> <<e, c>>, pre |-> pos,
                    end_tokens |-> e, consume |-> c, result |-> <<>>]
        /\ pos' = pos
        /\ Frame

\* unwrap_parentheses called: the first assert, then get_list_until({")"})
EnterUnwrapParentheses ==
    LET open == consume(pos, <<"(">>)
    IN  /\ pc = "ready"
        /\ pos' = open.pos
        /\ pc' = IF open.ret THEN "list_loop" ELSE "aborted"
        /\ call' = IF open.ret
                   THEN [op |-> "unwrap_parentheses", args |-> <<>>, pre |-> pos,
                         end_tokens |-> << <<")">> >>, consume |-> TRUE,
                         result |-> <<>>]
                   ELSE [op |-> "unwrap_parentheses", args |-> <<>>, pre |-> pos,
                         ok |-> FALSE,
                         ret |-> "Expected '(' at the beginning of parentheses"]
        /\ Frame

\* what follows the loop of get_list_until, left at cursor p: its return,
\* and in unwrap_parentheses the second assert
AfterList(p) ==
    IF call.op = "unwrap_parentheses"
    THEN IF consume(p, <<")">>).ret
         THEN Return(consume(p, <<")">>).pos, call.result)
         ELSE Abort(p, "Expected ')' at the end of parentheses")
    ELSE Return(p, call.result)

\* an iteration of the loop of get_list_until that pushes a token
ListIterate ==
    /\ pc = "list_loop"
    /\ pos < size
    /\ ~IsEndToken(pos, call.end_tokens)
    /\ pos' = next(pos).pos
    /\ call' = [call EXCEPT !.result = Append(@, next(pos).ret)]
    /\ pc' = pc
    /\ Frame

\* the iteration that finds an end token and breaks
ListBreak ==
    /\ pc = "list_loop"
    /\ pos < size
    /\ IsEndToken(pos, call.end_tokens)
    /\ Returned(AfterList(IF call.consume THEN pos + 1 ELSE pos))
    /\ Frame

\* the loop condition `pos < tokens.size()` found false
ListExit ==
    /\ pc = "list_loop"
    /\ ~(pos < size)
    /\ Returned(AfterList(pos))
    /\ Frame

\* get_token_groups_in_between called: the assert, the locals, the loop
EnterGetTokenGroupsInBetween ==
    \E g \in GroupTexts :
        LET open == consume(pos, g[1])
        IN  /\ pc = "ready"
            /\ pos' = open.pos
            /\ pc' = IF open.ret THEN "group_loop" ELSE "aborted"
            /\ call' = IF open.ret
                       THEN [op |-> "get_token_groups_in_between", args |-> g,
                             pre |-> pos, end |-> g[2], separator |-> g[3],
                             groups |-> <<>>, current_group |-> <<>>]
                       ELSE [op |-> "get_token_groups_in_between", args |-> g,
                             pre |-> pos, ok |-> FALSE,
                             ret |-> "Expected start token at the beginning"]
            /\ Frame

\* the loop with a separator test that leaves the cursor where it is
GroupIterate_separator_stays ==
    /\ pc = "group_loop"
    /\ pos < size /\ ~consume(pos, call.end).ret
    /\ IF consume(pos, call.separator).ret
       THEN /\ pos' = pos
            /\ call' = [call EXCEPT !.groups = Flush(@, call.current_group),
                                    !.current_group = <<>>]
       ELSE /\ pos' = next(pos).pos
            /\ call' = [call EXCEPT !.current_group = Append(@, next(pos).ret)]
    /\ pc' = pc
    /\ Frame

\* an iteration of the loop of get_token_groups_in_between
GroupIterate ==
    /\ pc = "group_loop"
    /\ pos < size /\ ~consume(pos, call.end).ret
    /\ IF consume(pos, call.separator).ret
       THEN /\ pos' = consume(pos, call.separator).pos
            /\ call' = [call EXCEPT !.groups = Flush(@, call.current_group),
                                    !.current_group = <<>>]
       ELSE /\ pos' = next(pos).pos
            /\ call' = [call EXCEPT !.current_group = Append(@, next(pos).ret)]
    /\ pc' = pc
    /\ Frame

\* the loop condition found false, the last group flushed
GroupExit ==
    /\ pc = "group_loop"
    /\ ~(pos < size /\ ~consume(pos, call.end).ret)
    /\ Returned(Return(IF pos < size THEN consume(pos, call.end).pos ELSE pos,
                       Flush(call.groups, call.current_group)))
    /\ Frame

--------------------------------------------------------------------------
(* Specifications.                                                        *)

\* the characters of the source texts the cursor API is driven over
StreamAlphabet == {"(", ")", ",", "a"}

\* the characters of the multi-line source texts it is driven over
LineAlphabet == {"a", "'", "\n"}

StreamSources ==
    SeqsUpTo(StreamAlphabet, MaxStreamLen) \cup SeqsUpTo(LineAlphabet, MaxStreamLen)

\* the characters of the source texts the scanner is driven over
AnyAlphabet ==
    {"\n", " ", "/", "\"", "'", "\\", "1", ".", "a", "_", "=", "&", "|", "+", "("}
NumberAlphabet == {"1", ".", "a", "+"}
QuoteAlphabet == {"\"", "'", "\\", "a", "/", "\n"}
OperatorAlphabet == {"=", "!", "<", ">", "&", "|", "+", "-", " "}

LexSources ==
    SeqsUpTo(AnyAlphabet, MaxAnyLen)
        \cup SeqsUpTo(NumberAlphabet, MaxFocusLen)
        \cup SeqsUpTo(QuoteAlphabet, MaxFocusLen)
        \cup SeqsUpTo(OperatorAlphabet, MaxAnyLen)

Init == \E input \in StreamSources : Constructed(input)

Next ==
    \/ DoPeek
    \/ DoNext
    \/ DoConsume
    \/ DoGetListUntil
    \/ DoUnwrapParentheses
    \/ DoGetTokenGroupsInBetween
    \/ DoHasMoreTokens
    \/ DoEof
    \/ DoMoveBack
    \/ DoMoveForward
    \/ DoGetLine
    \/ DoPrintErrorAtCurrent
    \/ Resume

\* the cursor API over a constructed stream
Spec == Init /\ [][Next]_vars

InitLex == \E input \in LexSources : Construct(input)

NextLex ==
    \/ TokNewline
    \/ TokSpace
    \/ TokComment
    \/ TokString
    \/ TokNumber
    \/ TokLiteral
    \/ TokOperator
    \/ TokFinish

\* the constructor's scan, one loop iteration at a time
SpecLex == InitLex /\ [][NextLex]_vars

\* the source texts the loops are stepped over: texts that take the scan
\* through each of its rules, and texts of delimiters and names
StepAlphabet == {"\n", " ", "/", "'", "1", "a"}

StepSources ==
    SeqsUpTo(StepAlphabet, MaxAnyLen) \cup SeqsUpTo(StreamAlphabet, MaxStepLen)

InitSteps == \E input \in StepSources : Construct(input)

\* a step of a loop of the cursor API
LoopStep ==
    \/ ListIterate
    \/ ListBreak
    \/ ListExit
    \/ GroupIterate
    \/ GroupExit

NextSteps ==
    \/ NextLex
    \/ EnterGetListUntil
    \/ EnterUnwrapParentheses
    \/ EnterGetTokenGroupsInBetween
    \/ LoopStep
    \/ DoMoveForward
    \/ Resume

\* construction and the looping operations, one loop iteration at a
\* time; running code takes its next step
SpecSteps ==
    InitSteps /\ [][NextSteps]_vars /\ WF_vars(NextLex) /\ WF_vars(LoopStep)

--------------------------------------------------------------------------
(* What the claims are stated with: the stream seen as a sequence of      *)
(* token texts, independently of how the operations walk it.              *)

\* the text of the token at cursor i (0-based)
Text(i) == str(string, tokens[i + 1])

\* tokens[p..k-1], cursors 0-based
Slice(p, k) == SubSeq(tokens, p + 1, k)

\* the cursors at or after p whose token text is one of the texts T
Matches(p, T) == {k \in p..(size - 1) : Text(k) \in T}

\* the first such cursor, or size when there is none
FirstMatch(p, T) ==
    IF Matches(p, T) = {} THEN size
    ELSE CHOOSE k \in Matches(p, T) : \A j \in Matches(p, T) : k <= j

Elements(seq) == {seq[i] : i \in 1..Len(seq)}

\* a call has been made and has returned or aborted
Called(op) == pc \in {"returned", "aborted"} /\ call.op = op

--------------------------------------------------------------------------
\* C1: in every state of a constructed stream 0 <= cursor <= len(tokens),
\* and cursor = len(tokens) is exactly the state where eof() is true and
\* has_more_tokens() is false, both as the operations compute them and as
\* the calls of them returned.
C1_CursorInRange ==
    /\ 0 <= pos /\ pos <= Len(tokens)
    /\ (pos = Len(tokens)) = eof(pos).ret
    /\ (pos = Len(tokens)) = ~has_more_tokens(pos).ret
    /\ Called("eof") => call.ret = (pos = Len(tokens))
    /\ Called("has_more_tokens") => call.ret = (pos # Len(tokens))

\* a run of cursor moves has brought the cursor of a stream of several
\* tokens to end-of-stream
C1_Witness ==
    /\ Called("move_forward") /\ call.ok
    /\ Len(tokens) >= 2 /\ pos = Len(tokens)

\* C2 (as claimed): unwrap_parentheses() called on "(" with a ")" later in
\* the stream returns, with the tokens strictly between the "(" and the
\* first later ")", and leaves the cursor just after that ")".
C2_UnwrapReturnsEnclosed ==
    (/\ Called("unwrap_parentheses")
     /\ call.pre < size /\ Text(call.pre) = <<"(">>
     /\ Matches(call.pre + 1, {<<")">>}) # {})
    => LET k == FirstMatch(call.pre + 1, {<<")">>})
       IN  /\ call.ok
           /\ call.ret = Slice(call.pre + 1, k)
           /\ pos = k + 1

\* C3 (as claimed): unwrap_parentheses() and get_token_groups_in_between()
\* called on their start token with no closing delimiter in the rest of
\* the stream return, and leave the cursor at end-of-stream;
\* unwrap_parentheses() returns every token after the "(".
C3_UnterminatedIsLenient ==
    /\ (/\ Called("unwrap_parentheses")
        /\ call.pre < size /\ Text(call.pre) = <<"(">>
        /\ Matches(call.pre + 1, {<<")">>}) = {})
       => /\ call.ok
          /\ pos = size
          /\ call.ret = Slice(call.pre + 1, size)
    /\ (/\ Called("get_token_groups_in_between")
        /\ call.pre < size /\ Text(call.pre) = call.args[1]
        /\ Matches(call.pre + 1, {call.args[2]}) = {})
       => /\ call.ok
          /\ pos = size

\* the cursor (1-based index) of a token of the stream
IndexOf(t) == CHOOSE i \in 1..size : tokens[i] = t

RECURSIVE Flatten(_)
Flatten(groups) ==
    IF groups = <<>> THEN <<>> ELSE Head(groups) \o Flatten(Tail(groups))

\* C4: get_token_groups_in_between(start, end, separator), the three texts
\* pairwise distinct, called on a start token returns; with k the first
\* later end token (or end-of-stream) the cursor is left just after k (at
\* end-of-stream when there is none); the groups, concatenated, are the
\* tokens between start and k without the separators; no group is empty
\* or holds a separator or end token; each group is a run of adjacent
\* tokens and consecutive groups have a separator between them.
C4_GroupsSplitAtSeparators ==
    (/\ Called("get_token_groups_in_between")
     /\ PairwiseDistinct(call.args)
     /\ call.pre < size /\ Text(call.pre) = call.args[1])
    => LET k == FirstMatch(call.pre + 1, {call.args[2]})
           enclosed == Slice(call.pre + 1, k)
           IsElement(t) == str(string, t) # call.args[3]
           groups == call.ret
       IN  /\ call.ok
           /\ pos = IF k < size THEN k + 1 ELSE size
           /\ Flatten(groups) = SelectSeq(enclosed, IsElement)
           /\ \A m \in 1..Len(groups) :
                /\ groups[m] # <<>>
                /\ \A n \in 1..Len(groups[m]) :
                     str(string, groups[m][n]) \notin {call.args[2], call.args[3]}
                /\ \A n \in 1..(Len(groups[m]) - 1) :
                     IndexOf(groups[m][n + 1]) = IndexOf(groups[m][n]) + 1
           /\ \A m \in 1..(Len(groups) - 1) :
                IndexOf(groups[m + 1][1]) > IndexOf(groups[m][Len(groups[m])]) + 1

\* "(a,a)"-like: two groups closed by the end token, and a separator
\* that closes no group (a leading, trailing or doubled one)
C4_Witness ==
    /\ Called("get_token_groups_in_between") /\ call.ok
    /\ PairwiseDistinct(call.args)
    /\ Len(call.ret) = 2
    /\ pos = size
    /\ Text(size - 1) = call.args[2]
    /\ Cardinality(Matches(call.pre, {call.args[3]})) = 1

\* C5: get_list_until(end_texts, consume_end) called at cursor p returns
\* tokens[p..k-1] for the smallest k >= p whose text is one of end_texts,
\* leaving the cursor at k+1 when consume_end and at k when not; without
\* such a k it returns tokens[p..len-1] and leaves the cursor at len; it
\* never fails.
C5_ListUntilFirstEnd ==
    Called("get_list_until")
    => LET p == call.pre
           T == Elements(call.args[1])
           k == FirstMatch(p, T)
       IN  /\ call.ok
           /\ call.ret = Slice(p, k)
           /\ pos = IF k < size /\ call.args[2] THEN k + 1 ELSE k

\* get_list_until stopped on an end token it did not consume, after
\* collecting tokens
C5_Witness ==
    /\ Called("get_list_until") /\ call.ok
    /\ ~call.args[2]
    /\ Len(call.ret) >= 2
    /\ pos < size /\ Text(pos) \in Elements(call.args[1])

\* C6: consume(expected_text) returns true and moves the cursor on by 1
\* exactly when the cursor is before end-of-stream and the text of its
\* token is expected_text; otherwise it returns false and leaves the
\* cursor; it never fails.
C6_ConsumeExactText ==
    Called("consume")
    => LET hit == call.pre < size /\ Text(call.pre) = call.args[1]
       IN  /\ call.ok
           /\ call.ret = hit
           /\ pos = IF hit THEN call.pre + 1 ELSE call.pre

\* consume("a") refused on the token `aa`, of which "a" is a prefix
C6_Witness ==
    /\ Called("consume") /\ call.ok
    /\ call.args[1] = <<"a">>
    /\ call.pre < size /\ Text(call.pre) = <<"a", "a">>
    /\ call.ret = FALSE

\* C7: peek(), next() and move_forward() fail their assertion exactly when
\* called at cursor = len(tokens), and move_back() exactly when called at
\* cursor = 0; a call that does not fail leaves the cursor unchanged
\* (peek), one further (next, move_forward) or one back (move_back).
C7_BoundsAreContracts ==
    /\ (Called("peek") \/ Called("next") \/ Called("move_forward"))
       => (call.ok = (call.pre # size))
    /\ Called("move_back") => (call.ok = (call.pre # 0))
    /\ Called("peek") /\ call.ok => pos = call.pre
    /\ (Called("next") \/ Called("move_forward")) /\ call.ok => pos = call.pre + 1
    /\ Called("move_back") /\ call.ok => pos = call.pre - 1
    /\ (pc = "aborted") = (pc # "tokenize" /\ call.op # "none" /\ ~call.ok)

\* move_back() has failed at cursor 0 of a stream that has tokens
C7_Witness ==
    /\ Called("move_back") /\ ~call.ok
    /\ pc = "aborted" /\ size > 0

\* C8: after a next() that returned, an immediately following move_back()
\* returns too and leaves the cursor where it was before the next(), and
\* a peek() right after that returns the token the next() returned.
C8_MoveBackUndoesNext ==
    (undo.op = "next" /\ undo.ok /\ undo.then # "next")
    => /\ pc # "aborted"
       /\ pos = undo.pre
       /\ Called("move_back") => undo.then = "move_back" /\ call.ok
       /\ Called("peek") => /\ undo.then = "peek"
                            /\ call.ok
                            /\ call.ret = undo.ret

\* next(); move_back(); peek() carried out, not at the first token
C8_Witness ==
    /\ undo.op = "next" /\ undo.ok /\ undo.then = "peek"
    /\ Called("peek")
    /\ undo.pre > 0

--------------------------------------------------------------------------
(* The scanner's claims, over the source text and its offsets.            *)

\* the character at offset c
CharAt(c) == string[c + 1]

\* offset c lies in the slice of some token
Covered(c) == \E i \in 1..Len(tokens) : tokens[i].begin <= c /\ c < tokens[i].end

\* offset c lies in a `//` comment: a `//` outside every token starts at or
\* before it, with no newline from there to c
InComment(c) ==
    \E j \in 0..c :
        /\ j + 1 < Len(string)
        /\ CharAt(j) = "/" /\ CharAt(j + 1) = "/"
        /\ ~Covered(j)
        /\ \A m \in j..c : CharAt(m) # "\n"

\* C9: at every point of the scan the tokens emitted so far are non-empty
\* slices of the scanned part of the source, in strictly increasing order
\* without overlap, every scanned character outside them is a newline,
\* another whitespace character or part of a `//` comment, and the scan
\* ends with the whole source scanned.
C9_TokensAndSkipsPartitionSource ==
    /\ 0 <= cur /\ cur <= Len(string)
    /\ \A i \in 1..Len(tokens) :
         /\ 0 <= tokens[i].begin
         /\ tokens[i].begin < tokens[i].end
         /\ tokens[i].end <= cur
    /\ \A i \in 1..(Len(tokens) - 1) : tokens[i].end <= tokens[i + 1].begin
    /\ \A c \in 0..(cur - 1) :
         Covered(c) \/ CharAt(c) = "\n" \/ isspace(CharAt(c)) \/ InComment(c)
    /\ pc = "ready" => cur = Len(string)

\* a finished scan that emitted several tokens and skipped a comment
\* holding a letter
C9_Witness ==
    /\ pc = "ready"
    /\ Len(tokens) >= 2
    /\ \E c \in 0..(Len(string) - 1) : ~Covered(c) /\ CharAt(c) = "a"

\* token i is a NUMBER holding a `.` and the character after it is a `.`
DotAfterFraction(i) ==
    /\ tokens[i].type = "NUMBER"
    /\ "." \in Elements(str(string, tokens[i]))
    /\ tokens[i].end < Len(string)
    /\ CharAt(tokens[i].end) = "."

\* C10 (as claimed): when a NUMBER holding a `.` is followed by a second
\* `.`, that `.` is emitted as a one-character OPERATOR token.
C10_SecondDotIsOperator ==
    pc = "ready"
    => \A i \in 1..Len(tokens) :
         DotAfterFraction(i)
         => /\ i < Len(tokens)
            /\ tokens[i + 1].type = "OPERATOR"
            /\ tokens[i + 1].begin = tokens[i].end
            /\ tokens[i + 1].end = tokens[i].end + 1

\* C10 (amended): when a NUMBER holding a `.` is followed by a second `.`,
\* the number ends there and the `.` starts the next token: a NUMBER made
\* of the `.` and the digits after it when a digit follows the `.`, a
\* one-character OPERATOR otherwise; "1.1.1" yields NUMBER `1.1`,
\* NUMBER `.1`.
C10_SecondDotStartsNextToken ==
    pc = "ready"
    => /\ \A i \in 1..Len(tokens) :
            DotAfterFraction(i)
            => LET dot == tokens[i].end
                   t == tokens[i + 1]
               IN  /\ i < Len(tokens)
                   /\ t.begin = dot
                   /\ IF dot + 1 < Len(string) /\ isdigit(CharAt(dot + 1))
                      THEN /\ t.type = "NUMBER"
                           /\ \A c \in (dot + 1)..(t.end - 1) : isdigit(CharAt(c))
                           /\ t.end < Len(string) => ~isdigit(CharAt(t.end))
                      ELSE /\ t.type = "OPERATOR"
                           /\ t.end = dot + 1
       /\ string = <<"1", ".", "1", ".", "1">>
          => /\ Len(tokens) = 2
             /\ tokens[1].type = "NUMBER" /\ str(string, tokens[1]) = <<"1", ".", "1">>
             /\ tokens[2].type = "NUMBER" /\ str(string, tokens[2]) = <<".", "1">>

\* "1.1.1" scanned
C10_Witness ==
    /\ pc = "ready"
    /\ string = <<"1", ".", "1", ".", "1">>
    /\ DotAfterFraction(1)

\* the two characters of the source at offset b are the pair <<x, y>>
PairAt(b, x, y) == b + 1 < Len(string) /\ CharAt(b) = x /\ CharAt(b + 1) = y

\* C11 (as claimed): an OPERATOR token has length 2 exactly when its first
\* character is one of = ! < > & + - and the character after it is `=`, or
\* it is `&&` or `||`; every other OPERATOR token has length 1.
C11_TwoCharOperators ==
    pc = "ready"
    => \A i \in 1..Len(tokens) :
         tokens[i].type = "OPERATOR"
         => LET b == tokens[i].begin
                two == \/ \E x \in {"=", "!", "<", ">", "&", "+", "-"} : PairAt(b, x, "=")
                       \/ PairAt(b, "&", "&")
                       \/ PairAt(b, "|", "|")
            IN  length(tokens[i]) = IF two THEN 2 ELSE 1

\* C11 (amended): the same with `|` among the first characters that `=`
\* extends, so that `|=` is one OPERATOR token of length 2.
C11_TwoCharOperatorsWithPipe ==
    pc = "ready"
    => \A i \in 1..Len(tokens) :
         tokens[i].type = "OPERATOR"
         => LET b == tokens[i].begin
                two == \/ \E x \in {"=", "!", "<", ">", "&", "|", "+", "-"} : PairAt(b, x, "=")
                       \/ PairAt(b, "&", "&")
                       \/ PairAt(b, "|", "|")
            IN  length(tokens[i]) = IF two THEN 2 ELSE 1

\* "|=" followed by a third operator character, scanned
C11_Witness ==
    /\ pc = "ready"
    /\ Len(string) = 3
    /\ PairAt(0, "|", "=")
    /\ Len(tokens) = 2
    /\ tokens[2].type = "OPERATOR"

Quotes == {"\"", "'"}

\* the number of backslashes that stand directly before offset q, after
\* the opening quote at offset b
BackslashRun(b, q) ==
    CHOOSE n \in 0..(q - b - 1) :
        /\ \A m \in 1..n : CharAt(q - m) = "\\"
        /\ n = q - b - 1 \/ CharAt(q - n - 1) # "\\"

\* the offsets after b of the quote character of b that no backslash escapes
ClosingQuotes(b) ==
    {q \in (b + 1)..(Len(string) - 1) :
        CharAt(q) = CharAt(b) /\ BackslashRun(b, q) % 2 = 0}

\* C12: every quote character of the source is in a comment or in a STRING
\* token; a STRING token starts on a quote character and runs to and with
\* the first later occurrence of that character that no backslash escapes,
\* or to the end of the input when there is none.
C12_StringRunsToClosingQuote ==
    pc = "ready"
    => /\ \A c \in 0..(Len(string) - 1) :
            CharAt(c) \in Quotes
            => \/ InComment(c)
               \/ \E i \in 1..Len(tokens) :
                    /\ tokens[i].type = "STRING"
                    /\ tokens[i].begin <= c /\ c < tokens[i].end
       /\ \A i \in 1..Len(tokens) :
            tokens[i].type = "STRING"
            => LET b == tokens[i].begin
                   Q == ClosingQuotes(b)
               IN  /\ CharAt(b) \in Quotes
                   /\ tokens[i].end =
                        IF Q = {} THEN Len(string)
                        ELSE 1 + CHOOSE q \in Q : \A r \in Q : q <= r

\* a closed STRING token that holds an escaped quote of its own kind and a
\* quote of the other kind
C12_Witness ==
    /\ pc = "ready"
    /\ \E i \in 1..Len(tokens) :
         /\ tokens[i].type = "STRING"
         /\ ClosingQuotes(tokens[i].begin) # {}
         /\ \E q, r \in (tokens[i].begin + 1)..(tokens[i].end - 2) :
              /\ CharAt(q) = CharAt(tokens[i].begin)
              /\ CharAt(r) \in Quotes \ {CharAt(tokens[i].begin)}

\* the offsets before c that hold a newline
NewlinesBefore(c) == {n \in 0..(c - 1) : CharAt(n) = "\n"}

\* the offset at which the source line of offset c starts
LineStart(c) ==
    IF NewlinesBefore(c) = {} THEN 0
    ELSE 1 + CHOOSE n \in NewlinesBefore(c) : \A m \in NewlinesBefore(c) : m <= n

\* C13: the line of every emitted token is the number of newline
\* characters before its first character, and its col the number of
\* characters from the start of that source line to its first character.
C13_LineAndColOfSource ==
    \A i \in 1..Len(tokens) :
        /\ tokens[i].line = Cardinality(NewlinesBefore(tokens[i].begin))
        /\ tokens[i].col = tokens[i].begin - LineStart(tokens[i].begin)

--------------------------------------------------------------------------
\* the operations declared const, and has_more_tokens/eof among them
ReadOnly == {"peek", "has_more_tokens", "eof", "get_line", "print_error_at_current"}

\* C14: no step of the cursor API changes the source, the tokens or the
\* line table, and a call of peek, has_more_tokens, eof, get_line or
\* print_error_at_current leaves the cursor where it was.
C14_OnlyTheCursorMoves ==
    [][/\ string' = string
       /\ tokens' = tokens
       /\ lines' = lines
       /\ lines_scan' = lines_scan
       /\ (pc = "ready" /\ call'.op \in ReadOnly) => pos' = pos]_vars

\* print_error_at_current has written a diagnostic for a token that is
\* not the first, with the cursor still on that token
C14_Witness ==
    /\ Called("print_error_at_current") /\ call.ok
    /\ call.pre > 0 /\ call.pre < size
    /\ pos = call.pre
    /\ Len(call.ret) = 3

\* C17: the line of every token is an index of the line table, and
\* print_error_at_current never fails get_line's assertion, at any cursor.
C17_TokenLinesAreStored ==
    /\ \A i \in 1..Len(tokens) : 0 <= tokens[i].line /\ tokens[i].line < Len(lines)
    /\ Called("print_error_at_current")
       => /\ call.ok
          /\ call.pre < size => call.ret[2] = lines[tokens[call.pre + 1].line + 1]

\* print_error_at_current called on a token of the last line of a source
\* of several lines that does not end in a newline
C17_Witness ==
    /\ Called("print_error_at_current") /\ call.ok
    /\ call.pre < size
    /\ tokens[call.pre + 1].line >= 1
    /\ tokens[call.pre + 1].line = Len(lines) - 1
    /\ string[Len(string)] # "\n"

--------------------------------------------------------------------------
\* the characters of token t
Chars(t) == str(string, t)

\* the source goes on after token t with the character class P
FollowedBy(t, P(_)) == t.end < Len(string) /\ P(CharAt(t.end))

IsWordChar(c) == isalnum(c) \/ c = "_"

\* C16: the kind of a token follows from how its text begins: STRING on a
\* quote; NUMBER on a digit or on `.` before a digit, the token then made
\* of digits and at most one `.`; LITERAL (the spec's IDENTIFIER) on a
\* letter or `_`, the token then made of alphanumerics and `_` and not
\* followed by one; OPERATOR on anything else; SPECIAL is never emitted.
C16_KindFollowsFirstCharacter ==
    \A i \in 1..Len(tokens) :
        LET t == tokens[i]
            first == CharAt(t.begin)
            onQuote == first \in Quotes
            onNumber == \/ isdigit(first)
                        \/ first = "." /\ t.begin + 1 < Len(string)
                                       /\ isdigit(CharAt(t.begin + 1))
            onWord == isalpha(first) \/ first = "_"
            dots == {n \in 1..Len(Chars(t)) : Chars(t)[n] = "."}
        IN  /\ t.type \in {"STRING", "NUMBER", "LITERAL", "OPERATOR"}
            /\ (t.type = "STRING") = onQuote
            /\ (t.type = "NUMBER") = onNumber
            /\ (t.type = "LITERAL") = onWord
            /\ (t.type = "OPERATOR") = (~onQuote /\ ~onNumber /\ ~onWord)
            /\ t.type = "NUMBER"
               => /\ \A n \in 1..Len(Chars(t)) : isdigit(Chars(t)[n]) \/ Chars(t)[n] = "."
                  /\ Cardinality(dots) <= 1
            /\ t.type = "LITERAL"
               => /\ \A n \in 1..Len(Chars(t)) : IsWordChar(Chars(t)[n])
                  /\ ~FollowedBy(t, IsWordChar)

\* a scan that emitted a NUMBER starting on `.`, directly followed by a
\* LITERAL that holds a digit
C16_Witness ==
    /\ pc = "ready"
    /\ Len(tokens) >= 2
    /\ tokens[1].type = "NUMBER" /\ CharAt(tokens[1].begin) = "."
    /\ tokens[2].type = "LITERAL" /\ tokens[2].begin = tokens[1].end
    /\ \E n \in 1..Len(Chars(tokens[2])) : isdigit(Chars(tokens[2])[n])

--------------------------------------------------------------------------
\* the body of the scan loop is about to run / of the loop of
\* get_list_until / of the loop of get_token_groups_in_between
InScanBody == pc = "tokenize" /\ cur < Len(string)

InListBody == pc = "list_loop" /\ pos < size

InGroupBody == pc = "group_loop" /\ pos < size /\ Text(pos) # call.end

AtEndToken == \E n \in 1..Len(call.end_tokens) : Text(pos) = call.end_tokens[n]

\* an iteration of the scan loop moves the scan position forward, by one
\* character at least and not past the end of the text; the scan is over
\* only with the whole text consumed
ScanAdvances ==
    /\ InScanBody => cur' > cur /\ cur' <= Len(string)
    /\ pc = "tokenize" /\ pc' # "tokenize" => cur = Len(string) /\ cur' = cur

\* every scan is over at some time, and so is every loop of the cursor API
Terminates ==
    /\ (pc = "tokenize") ~> (pc = "ready")
    /\ (pc \in {"list_loop", "group_loop"}) ~> (pc \in {"returned", "aborted"})

\* C15 (as claimed): tokenize terminates with the whole input consumed,
\* each iteration of its loop moving the scan position forward by one
\* character at least; get_list_until, unwrap_parentheses and
\* get_token_groups_in_between terminate, each iteration of their loops
\* advancing the cursor by at least 1.
C15_EveryIterationAdvances ==
    /\ [][/\ ScanAdvances
          /\ InListBody \/ InGroupBody => pos' >= pos + 1]_vars
    /\ Terminates

\* C15 (amended): tokenize terminates with the whole input consumed, each
\* iteration of its loop moving the scan position forward by one character
\* at least; get_list_until, unwrap_parentheses and
\* get_token_groups_in_between terminate: an iteration that does not find
\* an end token advances the cursor by exactly 1 and stays in the loop, and
\* the iteration of get_list_until that finds an end token leaves the
\* loop, having advanced the cursor by 1 only if consume_end is true.
C15_IterationsAdvanceOrLeave ==
    /\ [][/\ ScanAdvances
          /\ InListBody /\ ~AtEndToken => pos' = pos + 1 /\ pc' = "list_loop"
          /\ InListBody /\ AtEndToken
             => /\ pc' \in {"returned", "aborted"}
                /\ pos' >= pos + (IF call.consume THEN 1 ELSE 0)
                /\ call.op = "get_list_until"
                   => pos' = pos + (IF call.consume THEN 1 ELSE 0)
          /\ InGroupBody => pos' = pos + 1 /\ pc' = "group_loop"]_vars
    /\ Terminates

\* get_list_until with consume_end false has returned after iterations
\* that advanced the cursor and one that found an end token and left the
\* cursor on it
C15_Witness ==
    /\ Called("get_list_until") /\ call.ok
    /\ ~call.args[2]
    /\ pos > call.pre /\ pos < size
    /\ \E n \in 1..Len(call.args[1]) : Text(pos) = call.args[1][n]
    /\ Len(call.ret) = pos - call.pre

--------------------------------------------------------------------------
\* C18 (as claimed): whenever unwrap_parentheses() or
\* get_token_groups_in_between() returns with assertions compiled in, the
\* same call compiled with NDEBUG returns the same tokens and leaves the
\* same cursor.
C18_AssertionsHaveNoEffect ==
    /\ Called("unwrap_parentheses") /\ call.ok
       => unwrap_parentheses_NDEBUG(call.pre) = Return(pos, call.ret)
    /\ Called("get_token_groups_in_between") /\ call.ok
       => get_token_groups_in_between_NDEBUG(call.pre, call.args[1], call.args[2],
                                             call.args[3])
            = Return(pos, call.ret)

==========================================================================
